---- MODULE Spec2Model ----
(***************************************************************************)
(* Model of the greenOak sequence-to-sequence pipeline:                    *)
(*   src/greenOak/src/dataset.py  (TestCaseDataset.load_data, the encoder, *)
(*                                 __getitem__, TestCaseCollator)          *)
(*   src/greenOak/src/model.py    (format_input, format_output, generate,  *)
(*                                 load_model)                             *)
(*   src/greenOak/src/trainer.py  (TestCaseTrainer.train)                  *)
(*   src/greenOak/src/app.py      (the caller that constructs the          *)
(*                                 generator and renders the results)      *)
(*                                                                         *)
(* A Python string is a sequence of chunks.  A chunk is a piece of text    *)
(* that the code never looks inside: a section marker, a lone "[", one     *)
(* whitespace character, an artifact ("<pad>", "</s>"), a JSON lexeme or a *)
(* plain word.  No two chunks of the alphabets used here join into a       *)
(* marker, an artifact or a "[", so every substring search of the code is  *)
(* a search for a chunk.                                                   *)
(***************************************************************************)
EXTENDS Integers, Sequences, FiniteSets, TLC

VARIABLES
    entry,         \* which entry point of the repository is running
    item,          \* dataset.py: the record `item` handed to the encoder
    encoded,       \* dataset.py: what the loop body made of `item`
    formatted,     \* model.py: what format_input returned for item's values
    raw,           \* model.py: the output_text handed to format_output
    decoded,       \* model.py: what format_output returned for raw
    num_return_sequences, \* model.py: generate's argument
    results,       \* model.py: the list generate returned
    app,           \* app.py: where TestCaseGeneratorApp stands
    checkpoint,    \* app.py: what the file system holds at model_path
    disk,          \* trainer.py: the directories save_checkpoint has written
    generator,     \* model.py: what self.model and self.tokenizer were loaded from
    file,          \* dataset.py: the file at data_path
    data,          \* dataset.py: the records read from the file
    pos,           \* dataset.py: index of the next record of `data`
    processed_data,\* dataset.py: load_data's result list
    logged,        \* dataset.py: number of logging.error calls
    load,          \* dataset.py: where load_data stands
    message,       \* dataset.py: the message of the exception load_data raised
    max_length,    \* dataset.py: self.max_length of the dataset
    calls,         \* dataset.py: the __getitem__ call of each worker
    batch,         \* dataset.py: the list handed to TestCaseCollator.__call__
    collated,      \* dataset.py: what TestCaseCollator.__call__ returned
    trainer,       \* trainer.py: the state of TestCaseTrainer.train
    evaluation,    \* trainer.py: the state of TestCaseTrainer.evaluate
    test_config,   \* api_test_ai_agent.py: the argument of execute_api_test
    response,      \* api_test_ai_agent.py: what requests.request does for that call
    result,        \* api_test_ai_agent.py: what execute_api_test returned
    session_state, \* api_test_ai_agent.py: st.session_state of the browser session
    generated,     \* api_test_ai_agent.py: the generate_test_cases call of the last script run
    executed,      \* api_test_ai_agent.py: the run_single_test calls of the last button handler
    script,        \* api_test_ai_agent.py: where the Streamlit script stands
    returned       \* api_test_ai_agent.py: how the last run_* call ended

vars == <<entry, item, encoded, formatted, raw, decoded, num_return_sequences, results,
          app, checkpoint, disk, generator, file, data, pos, processed_data, logged, load, message, max_length,
          calls, batch, collated, trainer, evaluation, test_config, response, result,
          session_state, generated, executed, script, returned>>

encVars == <<item, encoded, formatted, raw, decoded>>
genVars == <<num_return_sequences, results, app, checkpoint, disk, generator>>
loadVars == <<file, data, pos, processed_data, logged, load, message>>
storeVars == <<max_length, calls, batch, collated>>
agentVars == <<test_config, response, result, session_state, generated, executed, script,
              returned>>

(***************************************************************************)
(* Bounds                                                                  *)
(***************************************************************************)
MaxTextLen == 2      \* chunks in a free-text field value
MaxListLen == 2      \* elements in a sequence-valued field
MaxRawLen == 4       \* chunks in a raw text handed to format_output
MaxGenLen == 2       \* chunks in one text the underlying model generates
MaxReturn == 2       \* num_return_sequences
MaxItems == 3        \* records in a data file
MaxEpochs == 3       \* num_epochs
MaxBatches == 2      \* batches in the training split
MaxLoss == 3         \* loss values 0..MaxLoss
MaxInterval == 2     \* logging_steps and save_steps
MaxLength == 8       \* max_length of a dataset
MaxStore == 2        \* examples in a dataset that is read
NumWorkers == 2      \* workers calling __getitem__
MaxBatchSize == 3    \* examples in a batch handed to the collator
MaxValBatches == 3   \* batches in the validation split
MaxCases == 2        \* test cases in one answer of the language model

(***************************************************************************)
(* Chunks                                                                  *)
(***************************************************************************)
InputMarkers == {"[FEATURE]", "[TYPE]", "[DOMAIN]"}

OutputMarkers == <<"[SCENARIO]", "[STEPS]", "[EXPECTED]", "[DATA]", "[REQUIREMENTS]">>

OutputMarkerSet == {OutputMarkers[i] : i \in 1..Len(OutputMarkers)}

special_tokens == InputMarkers \cup OutputMarkerSet

\* the chunks whose first character is "["
BracketChunks == special_tokens \cup {"["}

Whitespace == {" ", "\n"}

(***************************************************************************)
(* Python's str operations, on chunk sequences                             *)
(***************************************************************************)
RECURSIVE lstrip(_)
lstrip(s) == IF Len(s) > 0 /\ s[1] \in Whitespace THEN lstrip(Tail(s)) ELSE s

RECURSIVE rstrip(_)
rstrip(s) ==
    IF Len(s) > 0 /\ s[Len(s)] \in Whitespace
    THEN rstrip(SubSeq(s, 1, Len(s) - 1))
    ELSE s

strip(s) == rstrip(lstrip(s))

contains(s, chunk) == \E i \in 1..Len(s) : s[i] = chunk

replace(s, old) == SelectSeq(s, LAMBDA c : c # old)

\* str.find('['): the 0-based index of the first "[", -1 when there is none
find_bracket(s) ==
    IF \E i \in 1..Len(s) : s[i] \in BracketChunks
    THEN (CHOOSE i \in 1..Len(s) :
              /\ s[i] \in BracketChunks
              /\ \A j \in 1..(i - 1) : s[j] \notin BracketChunks) - 1
    ELSE -1

\* str.split(sep): the pieces between the occurrences of sep, in order
RECURSIVE split(_, _)
split(s, sep) ==
    IF ~contains(s, sep)
    THEN <<s>>
    ELSE LET i == CHOOSE i \in 1..Len(s) :
                      s[i] = sep /\ \A j \in 1..(i - 1) : s[j] # sep
         IN <<SubSeq(s, 1, i - 1)>> \o split(SubSeq(s, i + 1, Len(s)), sep)

\* sep.join(list)
RECURSIVE join(_, _)
join(sep, list) ==
    IF Len(list) = 0 THEN <<>>
    ELSE IF Len(list) = 1 THEN list[1]
    ELSE list[1] \o sep \o join(sep, Tail(list))

(***************************************************************************)
(* json.dumps / json.loads over the structures a record's test_data takes  *)
(* here.  A structure is named by its JSON text; dumps gives the chunks of *)
(* that text (", " and ": " separators), loads reads chunks back, ignoring *)
(* whitespace between lexemes, and fails on anything that is not the text  *)
(* of a structure.                                                         *)
(***************************************************************************)
JsonValues == {"{}", "{\"k\": 1}", "{\"k\": [1]}"}

json_dumps(v) ==
    CASE v = "{}" -> <<"{}">>
      [] v = "{\"k\": 1}" -> <<"{", "\"k\"", ":", " ", "1", "}">>
      [] v = "{\"k\": [1]}" -> <<"{", "\"k\"", ":", " ", "[", "1", "]", "}">>

Lexemes(s) == SelectSeq(s, LAMBDA c : c \notin Whitespace)

\* [ok |-> FALSE] stands for json.JSONDecodeError
json_loads(s) ==
    IF \E v \in JsonValues : Lexemes(json_dumps(v)) = Lexemes(s)
    THEN [ok |-> TRUE,
          value |-> CHOOSE v \in JsonValues : Lexemes(json_dumps(v)) = Lexemes(s)]
    ELSE [ok |-> FALSE, value |-> ""]

(***************************************************************************)
(* Records.  A record is a dict; each key holds a field [k, v]: k says     *)
(* whether the key is absent, holds None, a string, a list of strings or a *)
(* structure, and v is the value (<<>> for absent and None).  `shape` is   *)
(* "dict" for a dict and "scalar" for a list element that is no dict.      *)
(***************************************************************************)
Absent == [k |-> "absent", v |-> <<>>]

None == [k |-> "none", v |-> <<>>]

Str(s) == [k |-> "str", v |-> s]

List(l) == [k |-> "list", v |-> l]

Json(j) == [k |-> "json", v |-> <<j>>]

has_key(f) == f.k # "absent"

\* Python truthiness of item[key]
truthy(f) ==
    CASE f.k = "absent" -> FALSE
      [] f.k = "none" -> FALSE
      [] f.k = "json" -> f.v[1] # "{}"
      [] OTHER -> Len(f.v) > 0

\* what an f-string makes of item[key]
fstr(f) == IF f.k = "none" THEN <<"None">> ELSE f.v

(***************************************************************************)
(* dataset.py, load_data, lines 34-57: the loop body for one record        *)
(***************************************************************************)
\* the encoder with line 38 testing the key alone, as lines 43-51 do
EncodeInputText_DomainKeyOnly(it) ==
    strip(<<"[FEATURE]", " ">> \o fstr(it.feature_description) \o <<" ">>
          \o <<"[TYPE]", " ">> \o fstr(it.feature_type) \o <<" ">>
          \o fstr(it.test_type) \o <<" ">>
          \o (IF has_key(it.domain)
              THEN <<"[DOMAIN]", " ">> \o fstr(it.domain)
              ELSE <<>>))

\* lines 36-39 and 55
EncodeInputText(it) ==
    strip(<<"[FEATURE]", " ">> \o fstr(it.feature_description) \o <<" ">>
          \o <<"[TYPE]", " ">> \o fstr(it.feature_type) \o <<" ">>
          \o fstr(it.test_type) \o <<" ">>
          \o (IF truthy(it.domain)
              THEN <<"[DOMAIN]", " ">> \o fstr(it.domain)
              ELSE <<>>))

\* lines 42-52 and 56
EncodeTargetText(it) ==
    strip((IF has_key(it.scenario)
           THEN <<"[SCENARIO]", " ">> \o fstr(it.scenario) \o <<" ">>
           ELSE <<>>)
          \o (IF has_key(it.steps)
              THEN <<"[STEPS]", " ">> \o join(<<" ">>, it.steps.v) \o <<" ">>
              ELSE <<>>)
          \o (IF has_key(it.expected_results)
              THEN <<"[EXPECTED]", " ">> \o join(<<" ">>, it.expected_results.v) \o <<" ">>
              ELSE <<>>)
          \o (IF has_key(it.test_data)
              THEN <<"[DATA]", " ">> \o json_dumps(it.test_data.v[1]) \o <<" ">>
              ELSE <<>>)
          \o (IF has_key(it.requirements)
              THEN <<"[REQUIREMENTS]", " ">> \o join(<<" ">>, it.requirements.v)
              ELSE <<>>))

\* the exceptions the loop body can raise: indexing a non-dict, a missing
\* mandatory key (KeyError), ' '.join of None (TypeError)
ItemRaises(it) ==
    \/ it.shape # "dict"
    \/ ~has_key(it.feature_description)
    \/ ~has_key(it.feature_type)
    \/ ~has_key(it.test_type)
    \/ it.steps.k = "none"
    \/ it.expected_results.k = "none"
    \/ it.requirements.k = "none"

NotEncoded == [status |-> "none", input_text |-> <<>>, target_text |-> <<>>]

EncodeItem(it) ==
    IF ItemRaises(it)
    THEN [status |-> "raised", input_text |-> <<>>, target_text |-> <<>>]
    ELSE [status |-> "ok",
          input_text |-> EncodeInputText(it),
          target_text |-> EncodeTargetText(it)]

(***************************************************************************)
(* model.py, format_input, lines 25-35                                     *)
(***************************************************************************)
format_input(feature_description, feature_type, test_type, domain) ==
    <<"[FEATURE]", " ">> \o feature_description \o <<" ">>
    \o <<"[TYPE]", " ">> \o feature_type \o <<" ">> \o test_type \o <<" ">>
    \o (IF truthy(domain) THEN <<"[DOMAIN]", " ">> \o domain.v ELSE <<>>)

(***************************************************************************)
(* model.py, format_output, lines 37-64                                    *)
(***************************************************************************)
\* lines 49-52: what one part after the marker leaves in sections[token]
PartValue(part) ==
    LET found == find_bracket(part)
        end_idx == IF found = -1 THEN Len(part) ELSE found
    IN strip(SubSeq(part, 1, end_idx))

\* lines 48-52: the loop over parts[1:], each part assigning sections[token]
RECURSIVE SectionLoop(_, _)
SectionLoop(parts, current) ==
    IF Len(parts) = 0
    THEN current
    ELSE SectionLoop(Tail(parts), PartValue(Head(parts)))

\* lines 44-52: sections as a function of the marker
Sections(output_text) ==
    [token \in OutputMarkerSet |->
        IF contains(output_text, token)
        THEN [present |-> TRUE,
              value |-> SectionLoop(Tail(split(output_text, token)), <<>>)]
        ELSE [present |-> FALSE, value |-> <<>>]]

\* dict.get(token, default)
sections_get(sections, token, default) ==
    IF sections[token].present THEN sections[token].value ELSE default

\* [s.strip() for s in text.split('\n') if s.strip()]
RECURSIVE StrippedLines(_)
StrippedLines(parts) ==
    IF Len(parts) = 0 THEN <<>>
    ELSE (IF Len(strip(Head(parts))) > 0 THEN <<strip(Head(parts))>> ELSE <<>>)
         \o StrippedLines(Tail(parts))

Lines(text) == StrippedLines(split(text, "\n"))

\* the dict {} that the except branch returns
EmptyDict == [x \in {} |-> x]

format_output(output_text) ==
    LET cleaned == replace(replace(output_text, "<pad>"), "</s>")
        sections == Sections(cleaned)
        test_data == json_loads(sections_get(sections, "[DATA]", <<"{}">>))
    IN IF ~test_data.ok
       THEN EmptyDict
       ELSE [scenario |-> sections_get(sections, "[SCENARIO]", <<>>),
             steps |-> Lines(sections_get(sections, "[STEPS]", <<>>)),
             expected_results |-> Lines(sections_get(sections, "[EXPECTED]", <<>>)),
             test_data |-> test_data.value,
             requirements |-> Lines(sections_get(sections, "[REQUIREMENTS]", <<>>))]

ResultFields == {"scenario", "steps", "expected_results", "test_data", "requirements"}

(***************************************************************************)
(* Inputs                                                                  *)
(***************************************************************************)
\* the sequences of at most n elements of a set
SeqsUpTo(elements, n) == UNION {[1..k -> elements] : k \in 0..n}

\* a record with the three mandatory fields and nothing else
BaseItem ==
    [shape |-> "dict",
     feature_description |-> Str(<<"login">>),
     feature_type |-> Str(<<"API">>),
     test_type |-> Str(<<"Security Testing">>),
     domain |-> Absent,
     scenario |-> Absent,
     steps |-> Absent,
     expected_results |-> Absent,
     test_data |-> Absent,
     requirements |-> Absent]

\* records differing in the four input-side values
InputItems ==
    {[BaseItem EXCEPT !.feature_description = Str(fd), !.feature_type = Str(ft),
                      !.test_type = Str(tt), !.domain = dom] :
        fd \in SeqsUpTo({"login", " "}, MaxTextLen),
        ft \in SeqsUpTo({"API", " "}, MaxTextLen),
        tt \in SeqsUpTo({"Security Testing", " "}, MaxTextLen),
        dom \in {Absent, None} \cup {Str(d) : d \in SeqsUpTo({"Fintech", " "}, MaxTextLen)}}

\* records differing in the five target-side values
TargetItems ==
    {[BaseItem EXCEPT !.scenario = sc, !.steps = st, !.expected_results = er,
                      !.test_data = td, !.requirements = rq] :
        sc \in {Absent} \cup {Str(s) : s \in SeqsUpTo({"Login works", " "}, MaxTextLen)},
        st \in {Absent, None} \cup {List(l) : l \in SeqsUpTo({<<"a">>, <<"b">>}, MaxListLen)},
        er \in {Absent} \cup {List(l) : l \in SeqsUpTo({<<"ok">>}, MaxListLen)},
        td \in {Absent} \cup {Json(j) : j \in JsonValues},
        rq \in {Absent} \cup {List(l) : l \in SeqsUpTo({<<"R1">>}, MaxListLen)}}

\* what tokenizer.decode(..., skip_special_tokens=False) can hand to format_output
RawChunks == OutputMarkerSet \cup {"[", "Login works", " ", "\n", "{}", "<pad>", "</s>"}

RawTexts == SeqsUpTo(RawChunks, MaxRawLen)

GenTexts == SeqsUpTo(RawChunks, MaxGenLen)

(***************************************************************************)
(* State outside the part a specification exercises                        *)
(***************************************************************************)
NotFormatted == [done |-> FALSE, text |-> <<>>]

NotDecoded == [done |-> FALSE, result |-> EmptyDict]

\* float('inf')
Inf == MaxLoss + 1

\* the trainer after __init__ (trainer.py lines 29-54), train() not yet called
NewTrainer(num_epochs, batches, logging_steps, save_steps) ==
    [pc |-> "Idle", num_epochs |-> num_epochs, batches |-> batches,
     logging_steps |-> logging_steps, save_steps |-> save_steps,
     epoch |-> 0, step |-> 0, global_step |-> 0, loss |-> 0, epoch_loss |-> 0,
     best_val_loss |-> Inf, train_losses |-> <<>>, val_losses |-> <<>>,
     metrics_history |-> [precision |-> <<>>, recall |-> <<>>, f1 |-> <<>>],
     snapshots |-> {}, checkpoints |-> {}, phases |-> <<>>, error |-> "none"]

TrainerIdle == NewTrainer(0, 0, 1, 1)

\* evaluate() not yet called on a trainer whose validation split gives
\* val_batches batches.  `mode` is the mode of the T5 model, `indicator` says
\* whether the label ids and the predicted ids of the split take two values at
\* most, `updates` counts the optimizer steps, scheduler steps and parameter
\* writes.
NewEvaluation(val_batches, mode, indicator) ==
    [pc |-> "Idle", val_batches |-> val_batches, indicator |-> indicator,
     mode |-> mode, grad_enabled |-> TRUE, step |-> 0, val_loss |-> 0,
     forwards |-> <<>>, updates |-> 0, result |-> [sum |-> 0, batches |-> 0],
     error |-> "none"]

EvaluationIdle == NewEvaluation(0, "eval", TRUE)

EncIdle ==
    /\ item = BaseItem
    /\ encoded = NotEncoded
    /\ formatted = NotFormatted
    /\ raw = <<>>
    /\ decoded = NotDecoded

\* model.py lines 12-23: the generator as __init__ leaves it, model and
\* tokenizer loaded from model_name
NewGenerator == [model |-> "t5-base", tokenizer |-> "t5-base"]

GenIdle ==
    /\ num_return_sequences = 0
    /\ results = <<>>
    /\ app = "idle"
    /\ checkpoint = "missing"
    /\ disk = {}
    /\ generator = NewGenerator

\* a tensor: its shape and its values, row after row
Tensor(shape, values) == [shape |-> shape, values |-> values]

NoTensor == Tensor(<<0>>, <<>>)

NotCollated ==
    [done |-> FALSE, input_ids |-> NoTensor, attention_mask |-> NoTensor,
     labels |-> NoTensor]

\* dataset.py line 13: max_length: int = 512
DefaultMaxLength == 512

LoadIdle ==
    /\ file = [exists |-> FALSE, suffix |-> ".json", records |-> <<>>]
    /\ data = <<>>
    /\ pos = 1
    /\ processed_data = <<>>
    /\ logged = 0
    /\ load = "idle"
    /\ message = <<>>
    /\ max_length = DefaultMaxLength
    /\ calls = <<>>
    /\ batch = <<>>
    /\ collated = NotCollated

\* an integer value of a test configuration
Number(n) == [k |-> "int", v |-> <<n>>]

\* api_test_ai_agent.py lines 15, 476-478: a test configuration is a dict; of
\* its keys the model keeps the three the result depends on
Config(url, method, expected_status) ==
    [url |-> url, method |-> method, expected_status |-> expected_status]

NoConfig == Config(Absent, Absent, Absent)

\* api_test_ai_agent.py line 47: what requests.request does, an exception or
\* a response with a status code and a body ("empty", "json" or "text")
Response(raises, status_code, content) ==
    [raises |-> raises, status_code |-> status_code, content |-> content]

NoResponse == Response(TRUE, 0, "empty")

\* api_test_ai_agent.py lines 20-30: the result as it stands before the try
PendingResult(cfg) ==
    [success |-> FALSE, status |-> "pending", error |-> Absent,
     request |-> [method |-> IF has_key(cfg.method) THEN cfg.method ELSE Str(<<"GET">>),
                  url |-> IF has_key(cfg.url) THEN cfg.url ELSE None],
     response |-> Absent]

\* api_test_ai_agent.py lines 142-154: the defaults init_session_state sets
\* for the keys the handlers read and write
NewSession ==
    [test_blocks |-> <<>>, test_results |-> [i \in {} |-> i], feature_description |-> <<>>,
     test_submitted |-> FALSE]

\* the script run has not called generate_test_cases
NotGenerated == [called |-> FALSE, feature |-> <<>>, valid |-> 0]

\* no button handler has run
NoReturn == [call |-> "none", value |-> "none"]

AgentIdle ==
    /\ test_config = NoConfig
    /\ response = NoResponse
    /\ result = PendingResult(NoConfig)
    /\ session_state = NewSession
    /\ generated = NotGenerated
    /\ executed = <<>>
    /\ script = "idle"
    /\ returned = NoReturn

(***************************************************************************)
(* Actions: the encoder, format_input and format_output on one input       *)
(***************************************************************************)
\* dataset.py lines 34-60 applied to `item`
Encode ==
    /\ entry = "encode"
    /\ encoded.status = "none"
    /\ encoded' = EncodeItem(item)
    /\ UNCHANGED <<entry, storeVars, item, formatted, raw, decoded, genVars, loadVars, trainer, evaluation, agentVars>>

\* model.py lines 25-35, called with item's four values (domain None when the
\* record has none)
FormatInput ==
    /\ entry = "encode"
    /\ ~formatted.done
    /\ item.shape = "dict"
    /\ item.feature_description.k = "str"
    /\ item.feature_type.k = "str"
    /\ item.test_type.k = "str"
    /\ formatted' =
          [done |-> TRUE,
           text |-> format_input(item.feature_description.v, item.feature_type.v,
                                 item.test_type.v,
                                 IF item.domain.k = "str" THEN item.domain ELSE None)]
    /\ UNCHANGED <<entry, storeVars, item, encoded, raw, decoded, genVars, loadVars, trainer, evaluation, agentVars>>

\* model.py lines 37-64 applied to the target_text the encoder produced
DecodeTarget ==
    /\ entry = "encode"
    /\ encoded.status = "ok"
    /\ ~decoded.done
    /\ raw' = encoded.target_text
    /\ decoded' = [done |-> TRUE, result |-> format_output(encoded.target_text)]
    /\ UNCHANGED <<entry, storeVars, item, encoded, formatted, genVars, loadVars, trainer, evaluation, agentVars>>

\* model.py lines 37-64 applied to a raw text
FormatOutput ==
    /\ entry = "decode"
    /\ ~decoded.done
    /\ decoded' = [done |-> TRUE, result |-> format_output(raw)]
    /\ UNCHANGED <<entry, storeVars, item, encoded, formatted, raw, genVars, loadVars, trainer, evaluation, agentVars>>

NextEncode == Encode \/ FormatInput \/ DecodeTarget

InitInput ==
    /\ entry = "encode"
    /\ item \in InputItems
    /\ encoded = NotEncoded
    /\ formatted = NotFormatted
    /\ raw = <<>>
    /\ decoded = NotDecoded
    /\ GenIdle /\ LoadIdle /\ trainer = TrainerIdle /\ evaluation = EvaluationIdle /\ AgentIdle

InitTarget ==
    /\ entry = "encode"
    /\ item \in TargetItems
    /\ encoded = NotEncoded
    /\ formatted = NotFormatted
    /\ raw = <<>>
    /\ decoded = NotDecoded
    /\ GenIdle /\ LoadIdle /\ trainer = TrainerIdle /\ evaluation = EvaluationIdle /\ AgentIdle

InitDecode ==
    /\ entry = "decode"
    /\ item = BaseItem
    /\ encoded = NotEncoded
    /\ formatted = NotFormatted
    /\ raw \in RawTexts
    /\ decoded = NotDecoded
    /\ GenIdle /\ LoadIdle /\ trainer = TrainerIdle /\ evaluation = EvaluationIdle /\ AgentIdle

\* the encoder and format_input on the input-side fields
SpecInput == InitInput /\ [][NextEncode]_vars

\* the encoder and format_output on the target-side fields
SpecTarget == InitTarget /\ [][NextEncode]_vars

\* format_output on raw texts
SpecDecode == InitDecode /\ [][FormatOutput]_vars

(***************************************************************************)
(* Claims about the encoder, format_input and format_output                *)
(***************************************************************************)
\* the record's target-side fields are all populated: scenario non-empty,
\* the three sequences hold one or more strings, test_data is a structure
AllPopulated(it) ==
    /\ it.scenario.k = "str" /\ truthy(it.scenario)
    /\ it.steps.k = "list" /\ Len(it.steps.v) >= 1
    /\ it.expected_results.k = "list" /\ Len(it.expected_results.v) >= 1
    /\ it.requirements.k = "list" /\ Len(it.requirements.v) >= 1
    /\ it.test_data.k = "json"

\* C1: round trip. For a record with every target field populated, format_output
\* of the encoder's target_text returns steps, expected_results and requirements
\* equal to the record's sequences and test_data equal to the record's structure.
C1_RoundTrip ==
    (decoded.done /\ encoded.status = "ok" /\ AllPopulated(item)) =>
        /\ DOMAIN decoded.result = ResultFields
        /\ decoded.result.steps = item.steps.v
        /\ decoded.result.expected_results = item.expected_results.v
        /\ decoded.result.requirements = item.requirements.v
        /\ decoded.result.test_data = item.test_data.v[1]

\* the raw text after the artifacts are removed
Cleaned(text) == replace(replace(text, "<pad>"), "</s>")

\* C2: when the [DATA] section of the raw text is not valid JSON, format_output
\* still returns scenario, steps, expected_results and requirements decoded from
\* their own sections, and test_data alone is the empty object.
C2_BadDataKeepsOtherFields ==
    (/\ decoded.done
     /\ Sections(Cleaned(raw))["[DATA]"].present
     /\ ~json_loads(Sections(Cleaned(raw))["[DATA]"].value).ok) =>
        /\ DOMAIN decoded.result = ResultFields
        /\ decoded.result.test_data = "{}"
        /\ decoded.result.scenario =
              sections_get(Sections(Cleaned(raw)), "[SCENARIO]", <<>>)
        /\ decoded.result.steps =
              Lines(sections_get(Sections(Cleaned(raw)), "[STEPS]", <<>>))
        /\ decoded.result.expected_results =
              Lines(sections_get(Sections(Cleaned(raw)), "[EXPECTED]", <<>>))
        /\ decoded.result.requirements =
              Lines(sections_get(Sections(Cleaned(raw)), "[REQUIREMENTS]", <<>>))

\* C4: format_input returns, character for character, the input_text the
\* encoder produces for a record with the same four values.
C4_FormatInputEqualsEncoder ==
    (formatted.done /\ encoded.status = "ok") => formatted.text = encoded.input_text

\* C5: target_text contains a target field's marker if and only if the field is
\* present in the record and non-empty.
C5_MarkerIffNonEmpty ==
    encoded.status = "ok" =>
        /\ contains(encoded.target_text, "[SCENARIO]") <=> truthy(item.scenario)
        /\ contains(encoded.target_text, "[STEPS]") <=> truthy(item.steps)
        /\ contains(encoded.target_text, "[EXPECTED]") <=> truthy(item.expected_results)
        /\ contains(encoded.target_text, "[DATA]") <=> truthy(item.test_data)
        /\ contains(encoded.target_text, "[REQUIREMENTS]") <=> truthy(item.requirements)

\* '[FEATURE] <feature_description> [TYPE] <feature_type> <test_type>', followed
\* by ' [DOMAIN] <domain>' when the record has a non-empty domain
ExactInputText(it) ==
    <<"[FEATURE]", " ">> \o fstr(it.feature_description)
    \o <<" ", "[TYPE]", " ">> \o fstr(it.feature_type)
    \o <<" ">> \o fstr(it.test_type)
    \o (IF truthy(it.domain) THEN <<" ", "[DOMAIN]", " ">> \o fstr(it.domain) ELSE <<>>)

NoOuterWhitespace(s) == strip(s) = s

\* C6 as stated: input_text is exactly that string; without a domain it holds no
\* [DOMAIN] marker and has no leading or trailing whitespace.
C6_InputTextExact ==
    encoded.status = "ok" =>
        /\ encoded.input_text = ExactInputText(item)
        /\ ~truthy(item.domain) =>
              /\ ~contains(encoded.input_text, "[DOMAIN]")
              /\ NoOuterWhitespace(encoded.input_text)

\* C6 as amended: input_text is that string with leading and trailing whitespace
\* trimmed; [DOMAIN] occurs in it if and only if the record's domain is non-empty,
\* and it never has leading or trailing whitespace.
C6_InputTextTrimmed ==
    encoded.status = "ok" =>
        /\ encoded.input_text = strip(ExactInputText(item))
        /\ contains(encoded.input_text, "[DOMAIN]") <=> truthy(item.domain)
        /\ NoOuterWhitespace(encoded.input_text)

\* C6 witness: a record without a domain whose test_type ends in whitespace
\* has been encoded
C6_Witness ==
    /\ encoded.status = "ok"
    /\ item.domain.k = "none"
    /\ Len(item.test_type.v) = 2 /\ item.test_type.v[2] = " "
    /\ encoded.input_text =
          <<"[FEATURE]", " ", "login", " ", "[TYPE]", " ", "API", " ", "Security Testing">>

\* the value the spec gives a marker: from the marker's FIRST occurrence up to
\* the next section marker, or the end of the text
RECURSIVE UpToMarker(_)
UpToMarker(s) ==
    IF Len(s) = 0 \/ s[1] \in special_tokens
    THEN <<>>
    ELSE <<s[1]>> \o UpToMarker(Tail(s))

FirstOccurrenceValue(text, token) == strip(UpToMarker(split(text, token)[2]))

\* C7: each marker that occurs gets its value from its first occurrence, up to
\* the next section marker or the end; a later occurrence or a "[" that starts
\* no marker changes nothing. (Stated for the results that carry their fields.)
C7_FirstOccurrenceUpToNextMarker ==
    (decoded.done /\ DOMAIN decoded.result = ResultFields) =>
        /\ contains(Cleaned(raw), "[SCENARIO]") =>
              decoded.result.scenario = FirstOccurrenceValue(Cleaned(raw), "[SCENARIO]")
        /\ contains(Cleaned(raw), "[STEPS]") =>
              decoded.result.steps = Lines(FirstOccurrenceValue(Cleaned(raw), "[STEPS]"))
        /\ contains(Cleaned(raw), "[EXPECTED]") =>
              decoded.result.expected_results =
                  Lines(FirstOccurrenceValue(Cleaned(raw), "[EXPECTED]"))
        /\ contains(Cleaned(raw), "[REQUIREMENTS]") =>
              decoded.result.requirements =
                  Lines(FirstOccurrenceValue(Cleaned(raw), "[REQUIREMENTS]"))
        /\ (/\ contains(Cleaned(raw), "[DATA]")
            /\ json_loads(FirstOccurrenceValue(Cleaned(raw), "[DATA]")).ok) =>
              decoded.result.test_data =
                  json_loads(FirstOccurrenceValue(Cleaned(raw), "[DATA]")).value

\* C8: a marker that does not occur in the raw text yields the empty value of
\* its field, never an error; '[SCENARIO] Login works' alone decodes to
\* scenario 'Login works' and four empty fields.
C8_AbsentMarkerGivesEmptyField ==
    decoded.done =>
        /\ DOMAIN decoded.result = ResultFields
        /\ ~contains(raw, "[SCENARIO]") => decoded.result.scenario = <<>>
        /\ ~contains(raw, "[STEPS]") => decoded.result.steps = <<>>
        /\ ~contains(raw, "[EXPECTED]") => decoded.result.expected_results = <<>>
        /\ ~contains(raw, "[DATA]") => decoded.result.test_data = "{}"
        /\ ~contains(raw, "[REQUIREMENTS]") => decoded.result.requirements = <<>>
        /\ raw = <<"[SCENARIO]", " ", "Login works">> =>
              decoded.result = [scenario |-> <<"Login works">>, steps |-> <<>>,
                                expected_results |-> <<>>, test_data |-> "{}",
                                requirements |-> <<>>]

(***************************************************************************)
(* model.py, generate, lines 66-96, and its caller app.py, run             *)
(***************************************************************************)
\* what may be found at model_path: nothing, a directory without model
\* weights, a directory with the weights but no tokenizer files, a directory
\* holding both (what save_model writes, model.py lines 112-115)
Checkpoints == {"missing", "empty", "weights_only", "complete"}

\* trainer.py line 26: output_dir: str = "models"
DefaultOutputDir == "models"

\* trainer.py lines 197-198: self.output_dir / f'checkpoint-{step}'
checkpoint_dir(output_dir, step) == <<output_dir, "/", "checkpoint-", step>>

\* app.py line 14: model_path: str = "models/best"
DefaultModelPath == <<"models", "/", "best">>

\* app.py lines 14-18: the generator is constructed from the base model, and
\* load_model is called only if model_path exists; if it does not, the
\* constructor goes on with the generator as it is
AppInit ==
    /\ entry = "generate"
    /\ app = "constructing"
    /\ generator' = NewGenerator
    /\ app' = IF checkpoint # "missing" THEN "load_model" ELSE "submitted"
    /\ UNCHANGED <<entry, storeVars, encVars, num_return_sequences, results, checkpoint, disk,
                   loadVars, trainer, evaluation, agentVars>>

\* model.py line 119: self.model is replaced by the model loaded from path;
\* from_pretrained raises when the directory holds no weights
LoadModel ==
    /\ entry = "generate"
    /\ app = "load_model"
    /\ IF checkpoint \in {"weights_only", "complete"}
       THEN /\ generator' = [generator EXCEPT !.model = "checkpoint"]
            /\ app' = "load_tokenizer"
       ELSE /\ generator' = generator
            /\ app' = "OSError"
    /\ UNCHANGED <<entry, storeVars, encVars, num_return_sequences, results, checkpoint, disk,
                   loadVars, trainer, evaluation, agentVars>>

\* model.py line 120: self.tokenizer is replaced by the tokenizer loaded from
\* path; from_pretrained raises when the directory holds no tokenizer files
LoadTokenizer ==
    /\ entry = "generate"
    /\ app = "load_tokenizer"
    /\ IF checkpoint = "complete"
       THEN /\ generator' = [generator EXCEPT !.tokenizer = "checkpoint"]
            /\ app' = "submitted"
       ELSE /\ generator' = generator
            /\ app' = "OSError"
    /\ UNCHANGED <<entry, storeVars, encVars, num_return_sequences, results, checkpoint, disk,
                   loadVars, trainer, evaluation, agentVars>>

\* lines 81-96: the underlying model samples a text, tokenizer.decode keeps the
\* special tokens in it, and format_output turns it into one result
GeneratedResults == {format_output(output) : output \in GenTexts}

\* generate, called by app.py lines 140-146: format_input builds the prompt and
\* the list returned holds one result per sampled sequence
Generate ==
    /\ entry = "generate"
    /\ app = "submitted"
    /\ formatted' =
          [done |-> TRUE,
           text |-> format_input(item.feature_description.v, item.feature_type.v,
                                 item.test_type.v,
                                 IF item.domain.k = "str" THEN item.domain ELSE None)]
    /\ results' \in [1..num_return_sequences -> GeneratedResults]
    /\ app' = "generated"
    /\ UNCHANGED <<entry, storeVars, item, encoded, raw, decoded, num_return_sequences,
                   checkpoint, disk, generator, loadVars, trainer, evaluation, agentVars>>

\* app.py lines 176-183: the Markdown download reads tc['scenario'], tc['steps'],
\* tc['expected_results'], tc['requirements'] and tc['test_data'] of every result
RenderMarkdown ==
    /\ entry = "generate"
    /\ app = "generated"
    /\ app' = IF \A i \in 1..Len(results) : ResultFields \subseteq DOMAIN results[i]
              THEN "rendered"
              ELSE "KeyError"
    /\ UNCHANGED <<entry, storeVars, encVars, num_return_sequences, results, checkpoint, disk,
                   generator, loadVars, trainer, evaluation, agentVars>>

NextGenerate == AppInit \/ LoadModel \/ LoadTokenizer \/ Generate \/ RenderMarkdown

InitGenerate ==
    /\ entry = "generate"
    /\ item \in {BaseItem, [BaseItem EXCEPT !.domain = Str(<<"Fintech">>)]}
    /\ encoded = NotEncoded
    /\ formatted = NotFormatted
    /\ raw = <<>>
    /\ decoded = NotDecoded
    /\ num_return_sequences \in 1..MaxReturn
    /\ results = <<>>
    /\ app = "constructing"
    /\ disk \in {{}, {checkpoint_dir(DefaultOutputDir, "best")}}
    /\ checkpoint \in IF DefaultModelPath \in disk THEN {"complete"} ELSE Checkpoints
    /\ generator = NewGenerator
    /\ LoadIdle /\ trainer = TrainerIdle /\ evaluation = EvaluationIdle /\ AgentIdle

\* the app is constructed with its default model_path, on a file system where
\* save_checkpoint('best') of a trainer with the default output_dir may have
\* written its directory, and serves one generation request
SpecGenerate == InitGenerate /\ [][NextGenerate]_vars

(***************************************************************************)
(* dataset.py, load_data, lines 18-62                                      *)
(***************************************************************************)
\* the exception the loop body raises on a record, "none" when it raises none
ItemException(it) ==
    IF it.shape # "dict" THEN "TypeError"
    ELSE IF ~has_key(it.feature_description) \/ ~has_key(it.feature_type)
            \/ ~has_key(it.test_type) THEN "KeyError"
    ELSE IF ItemRaises(it) THEN "TypeError"
    ELSE "none"

\* the handler narrowed to `except KeyError`
Caught_KeyErrorOnly(exception) == exception = "KeyError"

\* line 58: except Exception
Caught(exception) == exception \in {"KeyError", "TypeError"}

\* lines 54-57
Processed(it) ==
    [input_text |-> EncodeInputText(it), target_text |-> EncodeTargetText(it)]

\* str(data_path): the path ends with the suffix Path.suffix returns
data_path(f) == <<"data/train">> \o (IF f.suffix = "" THEN <<>> ELSE <<f.suffix>>)

\* load_data looking at the suffix before it looks for the file
LoadOpen_SuffixFirst ==
    /\ entry = "load"
    /\ load = "idle"
    /\ IF file.suffix \notin {".json", ".csv"}
       THEN /\ load' = "ValueError"
            /\ message' = <<"Unsupported file format: ", file.suffix>>
            /\ data' = data
       ELSE IF ~file.exists
       THEN /\ load' = "FileNotFoundError"
            /\ message' = <<"Data file not found: ">> \o data_path(file)
            /\ data' = data
       ELSE /\ load' = "loop"
            /\ message' = message
            /\ data' = file.records
    /\ UNCHANGED <<entry, storeVars, encVars, genVars, file, pos, processed_data, logged, trainer, evaluation, agentVars>>

\* load_data whose format error does not say which suffix it refused
LoadOpen_SuffixNotNamed ==
    /\ entry = "load"
    /\ load = "idle"
    /\ IF ~file.exists
       THEN /\ load' = "FileNotFoundError"
            /\ message' = <<"Data file not found: ">> \o data_path(file)
            /\ data' = data
       ELSE IF file.suffix \in {".json", ".csv"}
       THEN /\ load' = "loop"
            /\ message' = message
            /\ data' = file.records
       ELSE /\ load' = "ValueError"
            /\ message' = <<"Unsupported file format">>
            /\ data' = data
    /\ UNCHANGED <<entry, storeVars, encVars, genVars, file, pos, processed_data, logged, trainer, evaluation, agentVars>>

\* lines 20-30: the path is checked (lines 21-22), then the suffix (lines 24-30),
\* and only a .json or .csv file is read
LoadOpen ==
    /\ entry = "load"
    /\ load = "idle"
    /\ IF ~file.exists
       THEN /\ load' = "FileNotFoundError"
            /\ message' = <<"Data file not found: ">> \o data_path(file)
            /\ data' = data
       ELSE IF file.suffix \in {".json", ".csv"}
       THEN /\ load' = "loop"
            /\ message' = message
            /\ data' = file.records
       ELSE /\ load' = "ValueError"
            /\ message' = <<"Unsupported file format: ", file.suffix>>
            /\ data' = data
    /\ UNCHANGED <<entry, storeVars, encVars, genVars, file, pos, processed_data, logged, trainer, evaluation, agentVars>>

\* lines 33-60: one turn of the loop
LoadItem ==
    /\ entry = "load"
    /\ load = "loop"
    /\ pos <= Len(data)
    /\ item' = data[pos]
    /\ pos' = pos + 1
    /\ LET exception == ItemException(data[pos])
       IN IF exception = "none"
          THEN /\ processed_data' = Append(processed_data, Processed(data[pos]))
               /\ UNCHANGED <<logged, load>>
          ELSE IF Caught(exception)
          THEN /\ logged' = logged + 1
               /\ UNCHANGED <<processed_data, load>>
          ELSE /\ load' = exception
               /\ UNCHANGED <<processed_data, logged>>
    /\ UNCHANGED <<entry, storeVars, encoded, formatted, raw, decoded, genVars, file, data, message,
                   trainer, evaluation, agentVars>>

\* line 62
LoadReturn ==
    /\ entry = "load"
    /\ load = "loop"
    /\ pos > Len(data)
    /\ load' = "returned"
    /\ UNCHANGED <<entry, storeVars, encVars, genVars, file, data, pos, processed_data, logged,
                   message, trainer, evaluation, agentVars>>

NextLoad == LoadOpen \/ LoadItem \/ LoadReturn

\* the records a data file holds here: three the loop body accepts (the last
\* with feature_description null, which the f-string turns into 'None') and
\* five it fails on
FullItem ==
    [BaseItem EXCEPT !.domain = Str(<<"Fintech">>),
                     !.scenario = Str(<<"Login works">>),
                     !.steps = List(<< <<"a">>, <<"b">> >>),
                     !.expected_results = List(<< <<"ok">> >>),
                     !.test_data = Json("{\"k\": 1}"),
                     !.requirements = List(<< <<"R1">> >>)]

FileRecords ==
    {BaseItem,
     FullItem,
     [BaseItem EXCEPT !.feature_description = None],
     [FullItem EXCEPT !.feature_description = Absent],
     [FullItem EXCEPT !.feature_type = Absent],
     [BaseItem EXCEPT !.test_type = Absent],
     [FullItem EXCEPT !.steps = None],
     [BaseItem EXCEPT !.shape = "scalar"]}

\* the suffixes of the paths tried: the two accepted ones, another format, a
\* suffix in capitals (the comparison of lines 24-27 is case-sensitive), none
Suffixes == {".json", ".csv", ".txt", ".JSON", ""}

InitLoad ==
    /\ entry = "load"
    /\ EncIdle /\ GenIdle
    /\ file \in [exists : BOOLEAN, suffix : Suffixes,
                 records : SeqsUpTo(FileRecords, MaxItems)]
    /\ data = <<>>
    /\ pos = 1
    /\ processed_data = <<>>
    /\ logged = 0
    /\ load = "idle"
    /\ message = <<>>
    /\ max_length = DefaultMaxLength
    /\ calls = <<>>
    /\ batch = <<>>
    /\ collated = NotCollated
    /\ trainer = TrainerIdle /\ evaluation = EvaluationIdle /\ AgentIdle

\* constructing an Example Store from a data file
SpecLoad == InitLoad /\ [][NextLoad]_vars

(***************************************************************************)
(* dataset.py, __len__ and __getitem__, lines 64-91                        *)
(*                                                                         *)
(* A token id is named by its vocabulary piece: "<pad>" is the pad id,     *)
(* "</s>" the end-of-sequence id.  The tokenizer makes one piece of every  *)
(* chunk that is not whitespace.                                           *)
(***************************************************************************)
Min(a, b) == IF a <= b THEN a ELSE b

\* the pieces of a text, before truncation and before the end-of-sequence piece
tokenize(text) == SelectSeq(text, LAMBDA c : c \notin Whitespace)

\* lines 71-77 and 79-85: self.tokenizer(text, max_length=L, padding='max_length',
\* truncation=True, return_tensors='pt').  The pieces are cut to L - 1, the
\* end-of-sequence piece is added, the rest is padded on the right, and the
\* tensors returned have one row.
tokenizer(text, L) ==
    LET pieces == tokenize(text)
        kept == SubSeq(pieces, 1, Min(Len(pieces), L - 1)) \o <<"</s>">>
    IN [input_ids |->
            Tensor(<<1, L>>, kept \o [i \in 1..(L - Len(kept)) |-> "<pad>"]),
        attention_mask |->
            Tensor(<<1, L>>, [i \in 1..L |-> IF i <= Len(kept) THEN 1 ELSE 0])]

NoEncoding == [input_ids |-> NoTensor, attention_mask |-> NoTensor]

\* torch.Tensor.squeeze(): every dimension of size 1 is removed
squeeze(t) == Tensor(SelectSeq(t.shape, LAMBDA d : d # 1), t.values)

\* lines 87-91: the dict __getitem__ returns
Example(input_encoding, target_encoding) ==
    [input_ids |-> squeeze(input_encoding.input_ids),
     attention_mask |-> squeeze(input_encoding.attention_mask),
     labels |-> squeeze(target_encoding.input_ids)]

NoExample == [input_ids |-> NoTensor, attention_mask |-> NoTensor, labels |-> NoTensor]

\* lines 67-91: __getitem__(idx) of a dataset holding `store`, run from its
\* first line to its last with nothing in between
getitem(store, L, idx) ==
    Example(tokenizer(store[idx + 1].input_text, L),
            tokenizer(store[idx + 1].target_text, L))

NoCall ==
    [pc |-> "idle", idx |-> 0, item |-> [input_text |-> <<>>, target_text |-> <<>>],
     input_encoding |-> NoEncoding, target_encoding |-> NoEncoding,
     result |-> NoExample]

Workers == 1..NumWorkers

\* __getitem__ that takes the example out of the list it reads
GetRead_Pops(w) ==
    /\ entry = "get"
    /\ calls[w].pc \in {"idle", "returned"}
    /\ \E idx \in 0..(Len(processed_data) - 1) :
          /\ calls' = [calls EXCEPT ![w] = [NoCall EXCEPT !.pc = "read",
                                                          !.idx = idx,
                                                          !.item = processed_data[idx + 1]]]
          /\ processed_data' = [i \in 1..(Len(processed_data) - 1) |->
                                   IF i <= idx THEN processed_data[i]
                                   ELSE processed_data[i + 1]]
    /\ UNCHANGED <<entry, encVars, genVars, file, data, pos, logged, load, message,
                   max_length, batch, collated, trainer, evaluation, agentVars>>

\* line 68: a worker calls __getitem__(idx) with 0 <= idx < len(self), which
\* takes item = self.data[idx]
GetRead(w) ==
    /\ entry = "get"
    /\ calls[w].pc \in {"idle", "returned"}
    /\ \E idx \in 0..(Len(processed_data) - 1) :
          calls' = [calls EXCEPT ![w] = [NoCall EXCEPT !.pc = "read",
                                                       !.idx = idx,
                                                       !.item = processed_data[idx + 1]]]
    /\ UNCHANGED <<entry, encVars, genVars, loadVars, max_length, batch, collated, trainer, evaluation, agentVars>>

\* lines 71-77: input_text is tokenized
GetTokenizeInput(w) ==
    /\ entry = "get"
    /\ calls[w].pc = "read"
    /\ calls' = [calls EXCEPT ![w].pc = "input",
                              ![w].input_encoding =
                                  tokenizer(calls[w].item.input_text, max_length)]
    /\ UNCHANGED <<entry, encVars, genVars, loadVars, max_length, batch, collated, trainer, evaluation, agentVars>>

\* lines 79-85: target_text is tokenized
GetTokenizeTarget(w) ==
    /\ entry = "get"
    /\ calls[w].pc = "input"
    /\ calls' = [calls EXCEPT ![w].pc = "target",
                              ![w].target_encoding =
                                  tokenizer(calls[w].item.target_text, max_length)]
    /\ UNCHANGED <<entry, encVars, genVars, loadVars, max_length, batch, collated, trainer, evaluation, agentVars>>

\* lines 87-91: the three tensors are squeezed and returned
GetReturn(w) ==
    /\ entry = "get"
    /\ calls[w].pc = "target"
    /\ calls' = [calls EXCEPT ![w].pc = "returned",
                              ![w].result = Example(calls[w].input_encoding,
                                                    calls[w].target_encoding)]
    /\ UNCHANGED <<entry, encVars, genVars, loadVars, max_length, batch, collated, trainer, evaluation, agentVars>>

NextGet ==
    \E w \in Workers :
        GetRead(w) \/ GetTokenizeInput(w) \/ GetTokenizeTarget(w) \/ GetReturn(w)

\* the records of the datasets that are read: one with short texts and no
\* target, one with every field
StoreRecords == {BaseItem, FullItem}

\* a dataset constructed by load_data from a .json file of one or more records
\* the encoder accepts, with a max_length of its own
InitGet ==
    /\ entry = "get"
    /\ EncIdle /\ GenIdle
    /\ \E records \in SeqsUpTo(StoreRecords, MaxStore) \ {<<>>} :
          /\ file = [exists |-> TRUE, suffix |-> ".json", records |-> records]
          /\ data = records
          /\ pos = Len(records) + 1
          /\ processed_data = [i \in 1..Len(records) |-> Processed(records[i])]
    /\ logged = 0
    /\ load = "returned"
    /\ message = <<>>
    /\ max_length \in 1..MaxLength
    /\ calls = [w \in Workers |-> NoCall]
    /\ batch = <<>>
    /\ collated = NotCollated
    /\ trainer = TrainerIdle /\ evaluation = EvaluationIdle /\ AgentIdle

\* workers reading a constructed dataset
SpecGet == InitGet /\ [][NextGet]_vars

(***************************************************************************)
(* dataset.py, TestCaseCollator.__call__, lines 98-107                     *)
(***************************************************************************)
RECURSIVE Flatten(_)
Flatten(rows) == IF Len(rows) = 0 THEN <<>> ELSE Head(rows) \o Flatten(Tail(rows))

\* torch.stack of one or more tensors of one shape: a new leading dimension,
\* the tensors in the order of the list
stack(tensors) ==
    Tensor(<<Len(tensors)>> \o tensors[1].shape,
           Flatten([i \in 1..Len(tensors) |-> tensors[i].values]))

\* the collator that stacks the input_ids where the labels belong
collate_LabelsFromInputIds(examples) ==
    [done |-> TRUE,
     input_ids |-> stack([i \in 1..Len(examples) |-> examples[i].input_ids]),
     attention_mask |-> stack([i \in 1..Len(examples) |-> examples[i].attention_mask]),
     labels |-> stack([i \in 1..Len(examples) |-> examples[i].input_ids])]

\* lines 98-107
collate(examples) ==
    [done |-> TRUE,
     input_ids |-> stack([i \in 1..Len(examples) |-> examples[i].input_ids]),
     attention_mask |-> stack([i \in 1..Len(examples) |-> examples[i].attention_mask]),
     labels |-> stack([i \in 1..Len(examples) |-> examples[i].labels])]

\* the collator is called on `batch`
Collate ==
    /\ entry = "collate"
    /\ ~collated.done
    /\ collated' = collate(batch)
    /\ UNCHANGED <<entry, encVars, genVars, loadVars, max_length, calls, batch, trainer, evaluation, agentVars>>

\* the examples __getitem__ returns for a dataset of the two records
Examples(L) ==
    LET store == <<Processed(BaseItem), Processed(FullItem)>>
    IN {getitem(store, L, idx) : idx \in 0..(Len(store) - 1)}

\* a batch of one or more examples of one dataset
InitCollate ==
    /\ entry = "collate"
    /\ EncIdle /\ GenIdle
    /\ file = [exists |-> FALSE, suffix |-> ".json", records |-> <<>>]
    /\ data = <<>>
    /\ pos = 1
    /\ processed_data = <<>>
    /\ logged = 0
    /\ load = "idle"
    /\ message = <<>>
    /\ max_length \in 1..MaxLength
    /\ calls = <<>>
    /\ batch \in SeqsUpTo(Examples(max_length), MaxBatchSize) \ {<<>>}
    /\ collated = NotCollated
    /\ trainer = TrainerIdle /\ evaluation = EvaluationIdle /\ AgentIdle

\* one call of the collator
SpecCollate == InitCollate /\ [][Collate]_vars

(***************************************************************************)
(* trainer.py, TestCaseTrainer.train, lines 56-117                         *)
(*                                                                         *)
(* The model handed to the trainer is the repository's TestCaseGenerator,  *)
(* whose train_step returns outputs.loss.item(), a Python float (model.py  *)
(* line 108).  train() calls loss.backward() on that float (line 79): a    *)
(* float has no such attribute, so the first batch of the first epoch ends *)
(* train() with AttributeError.  Nothing in train() catches it, and the    *)
(* training split is never empty (DataLoader(shuffle=True) refuses an      *)
(* empty dataset), so the statements after line 79 are never executed.     *)
(***************************************************************************)
Losses == 0..MaxLoss

\* model.py lines 98-110: the loss train_step returns is a float
train_step_loss_kind == "float"

\* whether loss.backward() exists for what train_step returned
has_backward(kind) == kind = "tensor"

\* lines 58-62: wandb.init, global_step = 0, best_val_loss = inf, the epoch loop
TrainBegin ==
    /\ entry = "train"
    /\ trainer.pc = "Idle"
    /\ trainer' = [trainer EXCEPT !.pc = IF trainer.num_epochs > 0
                                         THEN "EpochBegin"
                                         ELSE "Completed",
                                  !.global_step = 0,
                                  !.best_val_loss = Inf,
                                  !.epoch = 0]
    /\ UNCHANGED <<entry, storeVars, encVars, genVars, loadVars, evaluation, agentVars>>

\* lines 63-68: epoch_loss = 0, model.train(), the batch loop starts
EpochBegin ==
    /\ entry = "train"
    /\ trainer.pc = "EpochBegin"
    /\ trainer' = [trainer EXCEPT !.pc = "Batch", !.epoch_loss = 0, !.step = 0,
                                  !.phases = Append(trainer.phases,
                                                    <<"Training", trainer.epoch>>)]
    /\ UNCHANGED <<entry, storeVars, encVars, genVars, loadVars, evaluation, agentVars>>

\* the training step whose exception is caught and whose batch is skipped
TrainStep_SkipsFailedBatch ==
    /\ entry = "train"
    /\ trainer.pc = "Batch"
    /\ trainer.step < trainer.batches
    /\ \/ \E loss \in Losses :
             trainer' = [trainer EXCEPT !.pc = "Backward",
                                        !.loss = loss,
                                        !.epoch_loss = trainer.epoch_loss + loss]
       \/ trainer' = [trainer EXCEPT !.step = trainer.step + 1,
                                     !.error = "RuntimeError"]
    /\ UNCHANGED <<entry, storeVars, encVars, genVars, loadVars, evaluation, agentVars>>

\* lines 69-75: the next batch goes through train_step (model.py lines 98-110).
\* Either the forward pass raises (a corrupt batch) and, no statement of train()
\* being inside a try, the exception leaves train(); or train_step returns and
\* its loss is added up.
TrainStep ==
    /\ entry = "train"
    /\ trainer.pc = "Batch"
    /\ trainer.step < trainer.batches
    /\ \/ \E loss \in Losses :
             trainer' = [trainer EXCEPT !.pc = "Backward",
                                        !.loss = loss,
                                        !.epoch_loss = trainer.epoch_loss + loss]
       \/ trainer' = [trainer EXCEPT !.pc = "Failed", !.error = "RuntimeError"]
    /\ UNCHANGED <<entry, storeVars, encVars, genVars, loadVars, evaluation, agentVars>>

\* lines 78-79: optimizer.zero_grad(), then loss.backward()
BackwardPass ==
    /\ entry = "train"
    /\ trainer.pc = "Backward"
    /\ trainer' = IF has_backward(train_step_loss_kind)
                  THEN [trainer EXCEPT !.pc = "OptimizerStep"]
                  ELSE [trainer EXCEPT !.pc = "Failed", !.error = "AttributeError"]
    /\ UNCHANGED <<entry, storeVars, encVars, genVars, loadVars, evaluation, agentVars>>

NextTrain == TrainBegin \/ EpochBegin \/ TrainStep \/ BackwardPass

InitTrain ==
    /\ entry = "train"
    /\ EncIdle /\ GenIdle /\ LoadIdle
    /\ trainer \in {NewTrainer(n, b, l, sv) :
                        n \in 0..MaxEpochs, b \in 1..MaxBatches,
                        l \in 1..MaxInterval, sv \in 1..MaxInterval}
    /\ evaluation = EvaluationIdle /\ AgentIdle

\* one call of train() on a freshly constructed trainer
SpecTrain == InitTrain /\ [][NextTrain]_vars

(***************************************************************************)
(* trainer.py, TestCaseTrainer.evaluate, lines 119-148                     *)
(***************************************************************************)
\* lines 121-126: model.eval(), val_loss = 0, the lists, torch.no_grad() entered
EvaluateBegin ==
    /\ entry = "evaluate"
    /\ evaluation.pc = "Idle"
    /\ evaluation' = [evaluation EXCEPT !.pc = "Loop", !.mode = "eval",
                                        !.grad_enabled = FALSE, !.val_loss = 0,
                                        !.step = 0]
    /\ UNCHANGED <<entry, storeVars, encVars, genVars, loadVars, trainer, agentVars>>

\* lines 127-135: the next validation batch goes through train_step (model.py
\* lines 98-110), which first calls self.model.train() (line 100) and then runs
\* the forward pass; the float loss is added to val_loss.  A forward pass that
\* raises ends evaluate(), the no_grad block being left on the way out.
EvalStep ==
    /\ entry = "evaluate"
    /\ evaluation.pc = "Loop"
    /\ evaluation.step < evaluation.val_batches
    /\ \/ \E loss \in Losses :
             evaluation' =
                 [evaluation EXCEPT !.mode = "train",
                                    !.forwards = Append(evaluation.forwards,
                                                        [mode |-> "train",
                                                         grad_enabled |->
                                                             evaluation.grad_enabled]),
                                    !.val_loss = evaluation.val_loss + loss,
                                    !.step = evaluation.step + 1]
       \/ evaluation' = [evaluation EXCEPT !.pc = "Failed", !.mode = "train",
                                           !.grad_enabled = TRUE,
                                           !.error = "RuntimeError"]
    /\ UNCHANGED <<entry, storeVars, encVars, genVars, loadVars, trainer, agentVars>>

\* lines 137-142: the loop is over, the no_grad block is left, and
\* precision_recall_fscore_support gets all_labels and all_preds, two lists
\* of rows of token ids.  It accepts rows of two values at most (a label
\* indicator matrix) and raises ValueError for any other ('multiclass-multioutput
\* is not supported'); what it does with two empty lists is left open.
EvalMetrics ==
    /\ entry = "evaluate"
    /\ evaluation.pc = "Loop"
    /\ evaluation.step = evaluation.val_batches
    /\ \/ /\ evaluation.val_batches = 0 \/ evaluation.indicator
          /\ evaluation' = [evaluation EXCEPT !.pc = "Return", !.grad_enabled = TRUE]
       \/ /\ evaluation.val_batches = 0 \/ ~evaluation.indicator
          /\ evaluation' = [evaluation EXCEPT !.pc = "Failed", !.grad_enabled = TRUE,
                                              !.error = "ValueError"]
    /\ UNCHANGED <<entry, storeVars, encVars, genVars, loadVars, trainer, agentVars>>

\* lines 144-148: val_loss / len(self.val_dataloader) and the metrics are
\* returned; the division raises for a validation split without batches
EvalReturn ==
    /\ entry = "evaluate"
    /\ evaluation.pc = "Return"
    /\ evaluation' =
          IF evaluation.val_batches = 0
          THEN [evaluation EXCEPT !.pc = "Failed", !.error = "ZeroDivisionError"]
          ELSE [evaluation EXCEPT !.pc = "Returned",
                                  !.result = [sum |-> evaluation.val_loss,
                                              batches |-> evaluation.val_batches]]
    /\ UNCHANGED <<entry, storeVars, encVars, genVars, loadVars, trainer, agentVars>>

NextEvaluate == EvaluateBegin \/ EvalStep \/ EvalMetrics \/ EvalReturn

\* evaluate() is called on a constructed trainer; the model is in the mode
\* from_pretrained or an earlier call left it in
InitEvaluate ==
    /\ entry = "evaluate"
    /\ EncIdle /\ GenIdle /\ LoadIdle /\ AgentIdle
    /\ trainer = TrainerIdle
    /\ evaluation \in {NewEvaluation(n, mode, indicator) :
                          n \in 0..MaxValBatches, mode \in {"train", "eval"},
                          indicator \in BOOLEAN}

\* one call of evaluate()
SpecEvaluate == InitEvaluate /\ [][NextEvaluate]_vars

(***************************************************************************)
(* api_test_ai_agent.py: execute_api_test                                  *)
(***************************************************************************)
\* what an f-string makes of a status code
str_int(n) ==
    CASE n = 0 -> "0"
      [] n = 200 -> "200"
      [] n = 404 -> "404"
      [] OTHER -> "500"

\* Python truthiness of test_config.get('expected_status')
expected_given(f) == f.k = "int" /\ f.v[1] # 0

\* lines 32-57: the exception the try block raises before the result is
\* updated, "none" when it raises none
\*   line 33-34: no truthy url raises ValueError
\*   line 38: .upper() of a method that is None raises AttributeError
\*   line 47: requests.request may raise
\*   line 54: response.json() raises on a body that is no JSON
ExecuteException(cfg, resp) ==
    CASE ~truthy(cfg.url) -> "ValueError"
      [] cfg.method.k = "none" -> "AttributeError"
      [] resp.raises -> "RequestException"
      [] resp.content = "text" -> "JSONDecodeError"
      [] OTHER -> "none"

\* str(e) of those exceptions
ExceptionMessage(exception) ==
    CASE exception = "ValueError" -> <<"URL is required for API test">>
      [] exception = "AttributeError" ->
            <<"'NoneType' object has no attribute 'upper'">>
      [] exception = "RequestException" -> <<"Connection refused">>
      [] OTHER -> <<"Expecting value: line 1 column 1 (char 0)">>

\* lines 38-46: whether requests.request was called
request_sent(cfg) == truthy(cfg.url) /\ cfg.method.k # "none"

\* lines 51-56: response_data
response_data(resp) ==
    [k |-> "dict",
     v |-> [status_code |-> resp.status_code,
            body |-> IF resp.content = "empty" THEN None ELSE Json("{}")]]

\* lines 15-91: the result execute_api_test returns for a configuration when
\* requests.request behaves as resp
execute_api_test(cfg, resp) ==
    LET pending == PendingResult(cfg)
        exception == ExecuteException(cfg, resp)
        expected == cfg.expected_status
    IN  IF exception # "none"
        THEN [pending EXCEPT !.success = FALSE, !.status = "error",
                             !.error = Str(ExceptionMessage(exception))]
        ELSE IF expected_given(expected) /\ resp.status_code # expected.v[1]
             THEN [pending EXCEPT !.response = response_data(resp),
                                  !.success = FALSE, !.status = "failed",
                                  !.error = Str(<<"Expected status ", str_int(expected.v[1]),
                                                  ", got ", str_int(resp.status_code)>>)]
             ELSE [pending EXCEPT !.response = response_data(resp),
                                  !.success = TRUE, !.status = "passed"]

\* one call of execute_api_test
ExecuteApiTest ==
    /\ entry = "execute"
    /\ result.status = "pending"
    /\ result' = execute_api_test(test_config, response)
    /\ UNCHANGED <<entry, storeVars, encVars, genVars, loadVars, trainer, evaluation,
                   test_config, response, session_state, generated, executed, script,
                   returned>>

\* the values a test configuration gives its keys
Urls == {Absent, None, Str(<<>>), Str(<<"http://api/users">>)}

Methods == {Absent, None, Str(<<"get">>), Str(<<"POST">>)}

ExpectedStatuses == {Absent, None, Number(200), Number(404)}

TestConfigs ==
    {Config(url, method, expected) :
        url \in Urls, method \in Methods, expected \in ExpectedStatuses}

\* what the server may do with one request
Responses ==
    {Response(TRUE, 0, "empty")} \cup
    {Response(FALSE, code, content) :
        code \in {200, 404}, content \in {"empty", "json", "text"}}

InitExecute ==
    /\ entry = "execute"
    /\ EncIdle /\ GenIdle /\ LoadIdle
    /\ trainer = TrainerIdle /\ evaluation = EvaluationIdle
    /\ test_config \in TestConfigs
    /\ response \in Responses
    /\ result = PendingResult(test_config)
    /\ session_state = NewSession
    /\ generated = NotGenerated
    /\ executed = <<>>
    /\ script = "idle"
    /\ returned = NoReturn

\* one call of execute_api_test on one configuration
SpecExecute == InitExecute /\ [][ExecuteApiTest]_vars

(***************************************************************************)
(* api_test_ai_agent.py: the Streamlit page and its button handlers        *)
(***************************************************************************)
\* what the user may have typed into the feature text area
Features == {<<"login">>, <<"signup">>}

FeatureInputs == Features \cup {<<>>, <<" ">>}

\* line 312 and line 476: json.dumps(tc) of a dict of JSON values, and
\* json.loads of that text
dumps_config(tc) == [json |-> tc]

loads_config(code) == code.json

\* lines 311-315: a test block; `feature` is the feature_description that
\* generate_test_cases was called with when the block was made (line 286)
Block(feature, tc) == [feature |-> feature, code |-> dumps_config(tc)]

\* lines 295-296: tc.setdefault('method', 'GET'),
\* tc.setdefault('expected_status', 200)
with_defaults(tc) ==
    [tc EXCEPT !.method = IF has_key(@) THEN @ ELSE Str(<<"GET">>),
               !.expected_status = IF has_key(@) THEN @ ELSE Number(200)]

\* the test cases the language model may answer with: one with a url, one
\* with an empty url, one without a url
RawCases ==
    {Config(Str(<<"http://api/users">>), Absent, Absent),
     Config(Str(<<>>), Str(<<"POST">>), Number(404)),
     Config(Absent, Str(<<"get">>), Absent)}

\* lines 290-315: the test blocks built from a response, a test case
\* without 'url' is skipped
RECURSIVE build_blocks(_, _)
build_blocks(feature, cases) ==
    IF cases = <<>> THEN <<>>
    ELSE LET tc == with_defaults(Head(cases))
             rest == build_blocks(feature, Tail(cases))
         IN  IF has_key(tc.url) THEN <<Block(feature, tc)>> \o rest ELSE rest

\* lines 460-521: the test_result run_single_test stores and returns for a
\* block when requests.request behaves as resp
run_single_test(index, block, resp) ==
    LET r == execute_api_test(loads_config(block.code), resp)
    IN  [success |-> r.success, status |-> r.status, error |-> r.error]

\* a set of dict keys in insertion order, which is ascending for the keys
\* run_all_tests inserts
RECURSIVE Ascending(_)
Ascending(keys) ==
    IF keys = {} THEN <<>>
    ELSE LET least == CHOOSE i \in keys : \A j \in keys : i <= j
         IN  <<least>> \o Ascending(keys \ {least})

\* line 447: every stored index, a variant of failed_tests
failed_tests_AllStored(stored) == DOMAIN stored

\* line 447: [i for i, r in results.items() if not r.get('success', True)]
failed_tests(stored) == {i \in DOMAIN stored : ~stored[i].success}

\* lines 186-194: the script run in which "Generate Tests" is pressed
PressGenerate ==
    /\ entry = "agent"
    /\ script = "waiting"
    /\ \E feature_desc \in FeatureInputs :
          IF strip(feature_desc) = <<>>
          THEN /\ returned' = [call |-> "generate", value |-> "error"]
               /\ UNCHANGED <<session_state, script>>
          ELSE /\ session_state' = [session_state EXCEPT
                                       !.feature_description = feature_desc,
                                       !.test_submitted = TRUE]
               /\ script' = "rerun"
               /\ returned' = [call |-> "generate", value |-> "rerun"]
    /\ generated' = NotGenerated
    /\ executed' = <<>>
    /\ UNCHANGED <<entry, storeVars, encVars, genVars, loadVars, trainer, evaluation,
                   test_config, response, result>>

\* lines 196-200: the script run in which "Clear" is pressed
PressClear ==
    /\ entry = "agent"
    /\ script = "waiting"
    /\ session_state' = [session_state EXCEPT !.feature_description = <<>>,
                                               !.test_submitted = FALSE]
    /\ script' = "rerun"
    /\ returned' = [call |-> "clear", value |-> "rerun"]
    /\ generated' = NotGenerated
    /\ executed' = <<>>
    /\ UNCHANGED <<entry, storeVars, encVars, genVars, loadVars, trainer, evaluation,
                   test_config, response, result>>

\* lines 161-340: the script run that st.rerun() starts, no button pressed;
\* generate_test_cases is called only when no test block is stored
Rerun ==
    /\ entry = "agent"
    /\ script = "rerun"
    /\ IF session_state.test_submitted /\ session_state.test_blocks = <<>>
       THEN \/ \E cases \in SeqsUpTo(RawCases, MaxCases) :
                 LET feature == session_state.feature_description
                     test_blocks == build_blocks(feature, cases)
                 IN  /\ generated' = [called |-> TRUE, feature |-> feature,
                                      valid |-> Len(test_blocks)]
                     /\ session_state' =
                           IF test_blocks # <<>>
                           THEN [session_state EXCEPT !.test_blocks = test_blocks,
                                                      !.test_results = EmptyDict,
                                                      !.test_submitted = FALSE]
                           ELSE [session_state EXCEPT !.test_submitted = FALSE]
            \/ \* generate_test_cases raises: st.error, then the finally clause
               /\ generated' = [called |-> TRUE,
                                feature |-> session_state.feature_description,
                                valid |-> 0]
               /\ session_state' = [session_state EXCEPT !.test_submitted = FALSE]
       ELSE /\ generated' = NotGenerated
            /\ session_state' =
                  IF session_state.test_blocks # <<>>
                  THEN [session_state EXCEPT !.test_submitted = FALSE]
                  ELSE session_state
    /\ script' = "waiting"
    /\ UNCHANGED <<entry, storeVars, encVars, genVars, loadVars, trainer, evaluation,
                   test_config, response, result, executed, returned>>

\* lines 426-439, reached from line 341: the comprehension calls
\* run_single_test(i, block) in its condition and again in its value, so
\* each block is executed twice; the first test_result is stored in the old
\* test_results dict, which line 432 replaces
RunAllTests ==
    /\ entry = "agent"
    /\ script = "waiting"
    /\ session_state.test_blocks # <<>>
    /\ LET blocks == session_state.test_blocks
           indices == 0..(Len(blocks) - 1)
       IN  \E second \in [indices -> Responses] :
              /\ session_state' =
                    [session_state EXCEPT !.test_results =
                        [i \in indices |-> run_single_test(i, blocks[i + 1], second[i])]]
              /\ executed' = [j \in 1..(2 * Len(blocks)) |-> (j - 1) \div 2]
    /\ script' = "rerun"
    /\ returned' = [call |-> "run_all_tests", value |-> "rerun"]
    /\ generated' = NotGenerated
    /\ UNCHANGED <<entry, storeVars, encVars, genVars, loadVars, trainer, evaluation,
                   test_config, response, result>>

\* lines 441-458, reached from line 345
RunFailedTests ==
    /\ entry = "agent"
    /\ script = "waiting"
    /\ session_state.test_blocks # <<>>
    /\ LET blocks == session_state.test_blocks
           stored == session_state.test_results
           failed == failed_tests(stored)
           rerun == {i \in failed : i < Len(blocks)}
       IN  IF DOMAIN stored = {} \/ failed = {}
           THEN /\ returned' = [call |-> "run_failed_tests", value |-> "False"]
                /\ executed' = <<>>
                /\ UNCHANGED <<session_state, script>>
           ELSE /\ \E resp \in [rerun -> Responses] :
                      session_state' =
                         [session_state EXCEPT !.test_results =
                             [i \in DOMAIN stored |->
                                 IF i \in rerun
                                 THEN run_single_test(i, blocks[i + 1], resp[i])
                                 ELSE stored[i]]]
                /\ executed' = Ascending(rerun)
                /\ script' = "rerun"
                /\ returned' = [call |-> "run_failed_tests", value |-> "rerun"]
    /\ generated' = NotGenerated
    /\ UNCHANGED <<entry, storeVars, encVars, genVars, loadVars, trainer, evaluation,
                   test_config, response, result>>

NextAgent == PressGenerate \/ PressClear \/ Rerun \/ RunAllTests \/ RunFailedTests

\* the page after the first script run of a new browser session
InitAgent ==
    /\ entry = "agent"
    /\ EncIdle /\ GenIdle /\ LoadIdle
    /\ trainer = TrainerIdle /\ evaluation = EvaluationIdle
    /\ test_config = NoConfig
    /\ response = NoResponse
    /\ result = PendingResult(NoConfig)
    /\ session_state = NewSession
    /\ generated = NotGenerated
    /\ executed = <<>>
    /\ script = "waiting"
    /\ returned = NoReturn

\* one browser session of the API test agent
SpecAgent == InitAgent /\ [][NextAgent]_vars

(***************************************************************************)
(* The program: one of its entry points runs (the encoder and format_input *)
(* on a record, format_output on a text, a generation request of the app,  *)
(* the construction of a dataset, reads of a dataset, a call of the        *)
(* collator, a training run)                                               *)
(***************************************************************************)
Init ==
    \/ InitInput \/ InitTarget \/ InitDecode \/ InitGenerate \/ InitLoad
    \/ InitGet \/ InitCollate \/ InitTrain \/ InitEvaluate \/ InitExecute
    \/ InitAgent

Next ==
    \/ NextEncode \/ FormatOutput \/ NextGenerate \/ NextLoad
    \/ NextGet \/ Collate \/ NextTrain \/ NextEvaluate \/ ExecuteApiTest
    \/ NextAgent

Spec == Init /\ [][Next]_vars

(***************************************************************************)
(* Claims about generate, load_data and train                              *)
(***************************************************************************)
\* C3: generate returns exactly num_return_sequences results without raising,
\* each with all five fields, so that the caller reads every field of every
\* result without a missing-field failure.
C3_GenerateResultsHaveAllFields ==
    app \in {"generated", "rendered", "KeyError"} =>
        /\ Len(results) = num_return_sequences
        /\ \A i \in 1..Len(results) : DOMAIN results[i] = ResultFields
        /\ app # "KeyError"

\* a record the spec's data model accepts: a dict holding the three mandatory
\* keys, whose sequence-valued fields, where present, are sequences
WellFormed(it) ==
    /\ it.shape = "dict"
    /\ it.feature_description.k # "absent"
    /\ it.feature_type.k # "absent"
    /\ it.test_type.k # "absent"
    /\ it.steps.k \in {"absent", "list"}
    /\ it.expected_results.k \in {"absent", "list"}
    /\ it.requirements.k \in {"absent", "list"}

\* the well-formed records among the first n of the file, in file order
RECURSIVE WellFormedPrefix(_, _)
WellFormedPrefix(records, n) ==
    IF n = 0 THEN <<>>
    ELSE WellFormedPrefix(records, n - 1)
         \o (IF WellFormed(records[n]) THEN <<records[n]>> ELSE <<>>)

EarliestMinimum(losses) ==
    CHOOSE e \in 1..Len(losses) :
        /\ \A j \in 1..Len(losses) : losses[e] <= losses[j]
        /\ \A j \in 1..(e - 1) : losses[j] > losses[e]

\* C10: once train() has ended a run of one or more epochs, every epoch's
\* validation loss has been taken and the checkpoint tagged 'best' is the one
\* written in the earliest epoch that achieved the minimum validation loss.
C10_BestCheckpointIsEarliestMinimum ==
    (trainer.pc \in {"Completed", "Failed"} /\ trainer.num_epochs >= 1) =>
        /\ Len(trainer.val_losses) = trainer.num_epochs
        /\ \E c \in trainer.checkpoints :
              /\ c.tag = "best"
              /\ c.epoch = EarliestMinimum(trainer.val_losses) - 1

\* C11: a run of N epochs in which no batch is corrupt never fails: every loss
\* train_step returned gets its backward pass, and train() ends Completed after
\* exactly N epochs.
C11_TrainCompletesAfterNEpochs ==
    trainer.error # "RuntimeError" =>
        /\ trainer.pc # "Failed"
        /\ trainer.pc = "Completed" => trainer.epoch = trainer.num_epochs

\* the epochs for which train() entered the given phase
EpochsOf(phase) ==
    {trainer.phases[i][2] :
        i \in {j \in DOMAIN trainer.phases : trainer.phases[j][1] = phase}}

\* C12: a failure of the per-epoch visualizations never aborts the run: once a
\* run without a corrupt batch has ended, the visualization step of every one
\* of its epochs has been passed and the run is Completed.
C12_VisualizationNeverAborts ==
    (trainer.pc \in {"Completed", "Failed"} /\ trainer.error # "RuntimeError") =>
        /\ EpochsOf("Visualizing") = 0..(trainer.num_epochs - 1)
        /\ trainer.pc = "Completed"

\* C13: an exception raised inside a training step is not caught by train():
\* whenever one has been raised the run is over (Failed), and from then on
\* nothing of the trainer changes: no retry, no later batch, epoch, evaluation,
\* best-checkpoint write or visualization.
C13_StepExceptionEndsRun ==
    /\ [](trainer.error # "none" => trainer.pc = "Failed")
    /\ [][trainer.pc = "Failed" => trainer' = trainer]_vars

\* C13 witness: the forward pass of the first batch of a run of several epochs
\* and several batches raised; the run is over with nothing evaluated or saved
C13_Witness ==
    /\ trainer.pc = "Failed"
    /\ trainer.error = "RuntimeError"
    /\ trainer.num_epochs >= 2
    /\ trainer.batches >= 2
    /\ trainer.epoch = 0
    /\ trainer.step = 0
    /\ trainer.phases = << <<"Training", 0>> >>
    /\ trainer.val_losses = <<>>
    /\ trainer.checkpoints = {}

\* the phases train() goes through in epoch e, in the order of lines 63-109
EpochPhases(e) ==
    << <<"Training", e>>, <<"Evaluating", e>>, <<"BestCheckpoint", e>>,
       <<"Visualizing", e>> >>

RECURSIVE RunPhases(_)
RunPhases(n) == IF n = 0 THEN <<>> ELSE RunPhases(n - 1) \o EpochPhases(n - 1)

\* C14: once a run without a corrupt batch has ended, each of its epochs went
\* through its training pass, then exactly one evaluation, then the
\* best-checkpoint decision and the visualization, and only then did the next
\* epoch's training start.
C14_EvaluationOncePerEpoch ==
    (trainer.pc \in {"Completed", "Failed"} /\ trainer.error # "RuntimeError") =>
        trainer.phases = RunPhases(trainer.num_epochs)

\* C15: constructing a store on a path that does not exist fails with
\* FileNotFoundError whatever the suffix of the path; nothing is read and no
\* store is produced.
C15_MissingPathRaisesFileNotFound ==
    (~file.exists /\ load # "idle") =>
        /\ load = "FileNotFoundError"
        /\ message = <<"Data file not found: ">> \o data_path(file)
        /\ data = <<>>
        /\ pos = 1
        /\ processed_data = <<>>

\* C15 witness: a missing path whose suffix is none of the accepted ones was
\* tried
C15_Witness ==
    /\ ~file.exists
    /\ file.suffix = ".txt"
    /\ load = "FileNotFoundError"

\* C16: on an existing file whose suffix is neither .json nor .csv, the
\* construction fails with ValueError, the message holds the suffix, and no
\* record has been read, encoded or logged.
C16_UnsupportedSuffixRaisesValueError ==
    (file.exists /\ file.suffix \notin {".json", ".csv"} /\ load # "idle") =>
        /\ load = "ValueError"
        /\ contains(message, file.suffix)
        /\ data = <<>>
        /\ pos = 1
        /\ processed_data = <<>>
        /\ logged = 0

\* C16 witness: an existing file named .JSON that holds records was refused
C16_Witness ==
    /\ file.exists
    /\ file.suffix = ".JSON"
    /\ Len(file.records) >= 1
    /\ load = "ValueError"
    /\ message = <<"Unsupported file format: ", ".JSON">>

(***************************************************************************)
(* Claims about __getitem__ and the collator                               *)
(***************************************************************************)
RECURSIVE Sum(_)
Sum(values) == IF Len(values) = 0 THEN 0 ELSE Head(values) + Sum(Tail(values))

\* a one-dimensional tensor of n values
HasLength(t, n) == t.shape = <<n>> /\ Len(t.values) = n

NonPadPositions(t) == {i \in 1..Len(t.values) : t.values[i] # "<pad>"}

\* C17: whatever the length of the texts, the input_ids, attention_mask and
\* labels that a call of __getitem__ returns have length max_length each, and
\* the sum of attention_mask is the number of non-pad positions of input_ids.
C17_FixedLengthAndMask ==
    \A w \in DOMAIN calls :
        calls[w].pc = "returned" =>
            /\ HasLength(calls[w].result.input_ids, max_length)
            /\ HasLength(calls[w].result.attention_mask, max_length)
            /\ HasLength(calls[w].result.labels, max_length)
            /\ Sum(calls[w].result.attention_mask.values) =
                  Cardinality(NonPadPositions(calls[w].result.input_ids))

\* C18: no step of a __getitem__ call changes the dataset's contents, order or
\* length, and whatever the other workers do meanwhile, the value a call
\* returns for idx is the value of __getitem__(idx) run alone on the dataset, so
\* that calls with the same idx return equal values.
C18_GetIsPureProjection ==
    /\ [][/\ processed_data' = processed_data
          /\ max_length' = max_length
          /\ data' = data]_vars
    /\ [](\A w \in DOMAIN calls :
             calls[w].pc = "returned" =>
                 calls[w].result = getitem(processed_data, max_length, calls[w].idx))

\* C18 witness: both workers asked for the same example of a dataset of two,
\* their steps overlapped, and one has returned what the other is still making
C18_Witness ==
    /\ Len(processed_data) = 2
    /\ max_length = 3
    /\ calls[1].pc = "returned"
    /\ calls[1].idx = 1
    /\ calls[2].pc = "input"
    /\ calls[2].idx = 1
    /\ calls[1].result.attention_mask = Tensor(<<3>>, <<1, 1, 1>>)

\* row i (from 1) of a stacked tensor of rows of n values
Row(t, i, n) == SubSeq(t.values, (i - 1) * n + 1, i * n)

\* field by field, row i of the batch is example i
RowsAreExamples(field) ==
    \A i \in 1..Len(batch) :
        Row(collated[field], i, Len(batch[i][field].values)) = batch[i][field].values

\* C20: the batch the collator returns for k examples holds, for input_ids,
\* attention_mask and labels, k rows of which row i is the field of example i;
\* the rows have length max_length when the examples do.  The call leaves the
\* examples as they were.
C20_CollateStacksInOrder ==
    /\ [][batch' = batch]_vars
    /\ [](collated.done =>
            \A field \in {"input_ids", "attention_mask", "labels"} :
                /\ collated[field].shape = <<Len(batch)>> \o batch[1][field].shape
                /\ RowsAreExamples(field)
                /\ (\A i \in 1..Len(batch) : HasLength(batch[i][field], max_length)) =>
                      /\ collated[field].shape = <<Len(batch), max_length>>
                      /\ Len(collated[field].values) = Len(batch) * max_length)

\* C20 witness: three examples of length 4, the second unlike the others, have
\* been collated
C20_Witness ==
    /\ collated.done
    /\ max_length = 4
    /\ Len(batch) = 3
    /\ batch[1] = batch[3]
    /\ batch[2] # batch[1]
    /\ collated.labels.shape = <<3, 4>>

(***************************************************************************)
(* Claims about load_model and the app that calls it                       *)
(***************************************************************************)
\* C19: when nothing exists at the checkpoint path, loading fails with an error
\* that reaches the caller, and the generator never serves a request with
\* parameters other than those of the requested checkpoint.
C19_MissingCheckpointIsFatal ==
    /\ (checkpoint = "missing" /\ app # "constructing") => app = "OSError"
    /\ app \in {"submitted", "generated", "rendered", "KeyError"} =>
          generator = [model |-> "checkpoint", tokenizer |-> "checkpoint"]

(***************************************************************************)
(* Claims about the step counter and the histories of train()              *)
(***************************************************************************)
\* the global steps of a run of n batches that are multiples of an interval
MultiplesBelow(n, interval) == {g \in 0..(n - 1) : g % interval = 0}

\* the tags of the checkpoints written by step, 'best' left aside
StepTags == {c.step : c \in {d \in trainer.checkpoints : d.tag = "step"}}

\* C21: once a run without a corrupt batch has ended, the global step counter
\* has counted every batch of every epoch from 0 on, a metrics snapshot was
\* emitted at exactly the multiples of logging_steps, and one checkpoint per
\* multiple of save_steps was written, tagged with the counter.
C21_GlobalStepDrivesLoggingAndSaving ==
    (trainer.pc \in {"Completed", "Failed"} /\ trainer.error # "RuntimeError") =>
        LET n == trainer.num_epochs * trainer.batches
        IN /\ trainer.global_step = n
           /\ trainer.snapshots = MultiplesBelow(n, trainer.logging_steps)
           /\ StepTags = MultiplesBelow(n, trainer.save_steps)

\* C26: once a run without a corrupt batch has ended, every one of its epochs
\* was completed, and the training-loss history, the validation-loss history
\* and the precision, recall and F1 histories hold one entry per epoch.
C26_HistoriesHoldOneEntryPerEpoch ==
    (trainer.pc \in {"Completed", "Failed"} /\ trainer.error # "RuntimeError") =>
        /\ Len(trainer.train_losses) = trainer.num_epochs
        /\ Len(trainer.val_losses) = trainer.num_epochs
        /\ Len(trainer.metrics_history.precision) = trainer.num_epochs
        /\ Len(trainer.metrics_history.recall) = trainer.num_epochs
        /\ Len(trainer.metrics_history.f1) = trainer.num_epochs

(***************************************************************************)
(* Claims about evaluate()                                                 *)
(***************************************************************************)
\* C22: a call of evaluate() on which no forward pass raises ends by returning:
\* every validation batch went through one forward pass with gradients
\* disabled, the value returned is the sum of the batch losses over the number
\* of batches, and no optimizer step, scheduler step or parameter write was made.
C22_EvaluateReturnsMeanLoss ==
    (evaluation.pc \in {"Returned", "Failed"} /\ evaluation.error # "RuntimeError") =>
        /\ evaluation.pc = "Returned"
        /\ Len(evaluation.forwards) = evaluation.val_batches
        /\ \A i \in DOMAIN evaluation.forwards : ~evaluation.forwards[i].grad_enabled
        /\ evaluation.result = [sum |-> evaluation.val_loss,
                                batches |-> evaluation.val_batches]
        /\ evaluation.updates = 0

\* C23: every forward pass of evaluate() over a validation batch runs with the
\* model in evaluation mode.
C23_ForwardPassesInEvalMode ==
    \A i \in DOMAIN evaluation.forwards : evaluation.forwards[i].mode = "eval"

\* C24: when the trainer's 'best' checkpoint has been written under the default
\* output directory, the app constructed with its default model path looks for
\* that very directory and serves with the model and tokenizer loaded from it.
C24_AppLoadsTrainersBestCheckpoint ==
    (/\ checkpoint_dir(DefaultOutputDir, "best") \in disk
     /\ app \in {"submitted", "generated", "rendered", "KeyError"}) =>
        /\ DefaultModelPath = checkpoint_dir(DefaultOutputDir, "best")
        /\ generator = [model |-> "checkpoint", tokenizer |-> "checkpoint"]

\* C25: when load_model fails, the model and the tokenizer of the generator are
\* both as they were before the call.
C25_FailedLoadChangesNothing ==
    app = "OSError" => generator = NewGenerator

(***************************************************************************)
(* Claims about the API test agent                                         *)
(***************************************************************************)
\* C30: execute_api_test returns, for every test configuration, a result
\* whose status is 'passed', 'failed' or 'error' with success exactly for
\* 'passed'; a configuration without a URL or a request that fails gives
\* 'error' with an error message; and a response whose status code differs
\* from the given expected_status gives 'failed'.
C30_ExecuteClassifiesEveryOutcome ==
    (entry = "execute" /\ result.status # "pending") =>
        /\ result.status \in {"passed", "failed", "error"}
        /\ result.success <=> result.status = "passed"
        /\ (~truthy(test_config.url) \/ (request_sent(test_config) /\ response.raises)) =>
              /\ result.status = "error"
              /\ truthy(result.error)
        /\ (/\ request_sent(test_config)
            /\ ~response.raises
            /\ test_config.expected_status.k = "int"
            /\ response.status_code # test_config.expected_status.v[1]) =>
              result.status = "failed"

\* the number of run_single_test calls the last handler made for index i
Executions(i) == Cardinality({j \in DOMAIN executed : executed[j] = i})

\* C27: one 'Run All Tests' action executes each test block exactly once,
\* and afterwards the stored results hold exactly one entry per block index.
C27_RunAllExecutesEachBlockOnce ==
    (entry = "agent" /\ returned.call = "run_all_tests") =>
        LET indices == 0..(Len(session_state.test_blocks) - 1)
        IN  /\ DOMAIN session_state.test_results = indices
            /\ \A i \in indices : Executions(i) = 1

\* C28: once the rerun that follows a 'Generate Tests' press with a
\* non-empty description has finished, generate_test_cases has been called
\* for that description, and the displayed test blocks are not those of an
\* older description when that call gave valid test cases - also when test
\* blocks of an earlier description were stored.
C28_GenerateRequestIsServed ==
    (/\ entry = "agent"
     /\ script = "waiting"
     /\ returned = [call |-> "generate", value |-> "rerun"]) =>
        /\ generated.called
        /\ generated.feature = session_state.feature_description
        /\ generated.valid > 0 =>
              \A i \in DOMAIN session_state.test_blocks :
                  session_state.test_blocks[i].feature = session_state.feature_description

\* C29: run_failed_tests executes exactly the stored indices whose result
\* has success = false (and that index a test block), each once, and leaves
\* every other stored result as it was; without stored results or without a
\* failed one it executes nothing, changes nothing and returns False.
C29_RerunFailedTouchesOnlyFailed ==
    [][(/\ entry = "agent"
        /\ script = "waiting"
        /\ returned'.call = "run_failed_tests") =>
            LET stored == session_state.test_results
                failed == {i \in DOMAIN stored :
                              /\ ~stored[i].success
                              /\ i < Len(session_state.test_blocks)}
            IN  /\ DOMAIN session_state'.test_results = DOMAIN stored
                /\ \A i \in DOMAIN stored :
                      Executions(i)' = IF i \in failed THEN 1 ELSE 0
                /\ Len(executed') = Cardinality(failed)
                /\ \A i \in DOMAIN stored \ failed :
                      session_state'.test_results[i] = stored[i]
                /\ session_state'.test_blocks = session_state.test_blocks
                /\ failed = {} =>
                      /\ returned'.value = "False"
                      /\ session_state' = session_state
                      /\ script' = "waiting"]_vars

\* a rerun of the failed tests has executed one test and kept the stored
\* result of a test that had passed
C29_Witness ==
    /\ entry = "agent"
    /\ returned = [call |-> "run_failed_tests", value |-> "rerun"]
    /\ Len(executed) = 1
    /\ \E i \in DOMAIN session_state.test_results :
          /\ Executions(i) = 0
          /\ session_state.test_results[i].success

====
